---- MODULE Spec2Model ----
(***************************************************************************)
(* The FundMe funding ledger (contract/src/FundMe.sol) together with the   *)
(* ERC20 token service it is bound to.  Every transaction is one atomic    *)
(* step; a revert restores the whole pre-transaction state.                *)
(***************************************************************************)
EXTENDS Integers, Sequences, FiniteSets, TLC

\* Bound: total token supply ever minted, in multiples of MINIMUM_USDC.
MaxSupply == 3

\* uint256 public constant MINIMUM_USDC = 1 * 1e6;
MINIMUM_USDC == 1000000

\* Externally owned accounts that send transactions.
Identities == {"a1", "a2", "a3"}

\* The account that sends the deployment transaction (vm.startBroadcast).
Deployers == {"a1"}

\* address(this) of the deployed FundMe contract.
FundMeAddr == "fundMe"

\* Every token holder.
Holders == Identities \cup {FundMeAddr}

\* The token the constructor may be bound to: the local MockUSDC (an
\* OpenZeppelin ERC20 that aborts with its own errors) or the external USDC
\* contract, known only through the IERC20 interface.
TokenRefs == {"MockUSDC", "USDC"}

\* Amounts passed to fund(): below, at and above the minimum.
FundAmounts == {0, MINIMUM_USDC - 1, MINIMUM_USDC, 2 * MINIMUM_USDC}

\* Amounts passed to approve().
ApproveAmounts == {0, 2 * MINIMUM_USDC}

\* Amounts minted or sent directly to the ledger.
MoveAmounts == {MINIMUM_USDC}

\* What a token answers when asked to move funds.  MockUSDC moves them
\* whenever allowance and balance suffice; the external USDC may also refuse,
\* by returning false or by aborting.
Responses(kind) == IF kind = "MockUSDC" THEN {"ok"} ELSE {"ok", "false", "abort"}

VARIABLES
    i_owner,                \* address public immutable i_owner
    usdcToken,              \* IERC20 public immutable usdcToken
    addressToAmountFunded,  \* mapping(address => uint256)
    s_funders,              \* address[]
    balances,               \* token service: balanceOf
    allowances,             \* token service: allowance(holder, FundMe)
    lastCall,               \* the transaction that produced this state
    sinceWithdraw,          \* history: successful deposits since the last sweep
    outOfBand,              \* history: tokens sent to the ledger outside fund()
    everFunded,             \* history: who ever deposited (kept by SpecHistory)
    tip                     \* the TipButton component, or NoPage

ledgerVars == <<i_owner, usdcToken, addressToAmountFunded, s_funders, balances,
                allowances, lastCall, sinceWithdraw, outOfBand>>

vars == <<i_owner, usdcToken, addressToAmountFunded, s_funders, balances,
          allowances, lastCall, sinceWithdraw, outOfBand, everFunded, tip>>

RECURSIVE SumOver(_, _)
SumOver(f, S) ==
    IF S = {} THEN 0
    ELSE LET x == CHOOSE y \in S : TRUE IN f[x] + SumOver(f, S \ {x})

\* Total token supply.
TotalSupply == SumOver(balances, Holders)

\* Number of positions of the roster holding d.
Occurrences(roster, d) == Cardinality({i \in 1..Len(roster) : roster[i] = d})

InRoster(roster, d) == \E i \in 1..Len(roster) : roster[i] = d

\* A transaction: its entry point, msg.sender, amount, the error it aborted
\* with ("none" on success) and that error's arguments, and the token
\* functions it called.  A successful withdraw carries the balance it pushed
\* as amount and the roster it traversed as args; the constructor carries
\* its _usdcAddress argument as args.
Call(op, caller, amount, error, args, calls) ==
    [op |-> op, caller |-> caller, amount |-> amount, error |-> error,
     args |-> args, calls |-> calls]

\* A transaction sent to the token service directly, not to FundMe.
TokenCall == Call("token", "none", 0, "none", <<>>, <<>>)

(***************************************************************************)
(* Token service                                                           *)
(***************************************************************************)

TokenOk(bal, allow) ==
    [status |-> "ok", err |-> "none", args |-> <<>>, bal |-> bal, allow |-> allow]

TokenFail(kind, resp, err, args, bal, allow) ==
    IF kind = "MockUSDC" \/ resp = "abort"
    THEN [status |-> "abort", err |-> IF kind = "MockUSDC" THEN err ELSE "TokenAbort",
          args |-> IF kind = "MockUSDC" THEN args ELSE <<>>,
          bal |-> bal, allow |-> allow]
    ELSE [status |-> "false", err |-> "none", args |-> <<>>, bal |-> bal, allow |-> allow]

\* transferFrom(from, to, value) called by spender.
transferFrom(kind, bal, allow, spender, from, to, value, resp) ==
    IF allow[from] < value
    THEN TokenFail(kind, resp, "ERC20InsufficientAllowance",
                   <<spender, allow[from], value>>, bal, allow)
    ELSE IF bal[from] < value
    THEN TokenFail(kind, resp, "ERC20InsufficientBalance",
                   <<from, bal[from], value>>, bal, allow)
    ELSE IF kind = "USDC" /\ resp # "ok"
    THEN TokenFail(kind, resp, "TokenAbort", <<>>, bal, allow)
    ELSE TokenOk([h \in Holders |->
                     IF from = to THEN bal[h]
                     ELSE IF h = from THEN bal[h] - value
                     ELSE IF h = to THEN bal[h] + value
                     ELSE bal[h]],
                 [allow EXCEPT ![from] = @ - value])

\* transfer(to, value) called by from.
transfer(kind, bal, allow, from, to, value, resp) ==
    IF bal[from] < value
    THEN TokenFail(kind, resp, "ERC20InsufficientBalance",
                   <<from, bal[from], value>>, bal, allow)
    ELSE IF kind = "USDC" /\ resp # "ok"
    THEN TokenFail(kind, resp, "TokenAbort", <<>>, bal, allow)
    ELSE TokenOk([h \in Holders |->
                     IF from = to THEN bal[h]
                     ELSE IF h = from THEN bal[h] - value
                     ELSE IF h = to THEN bal[h] + value
                     ELSE bal[h]],
                 allow)

\* balanceOf(holder)
balanceOf(bal, holder) == bal[holder]

(***************************************************************************)
(* FundMe                                                                  *)
(***************************************************************************)

\* The ledger on its own: no page is open.
NoPage == "none"

\* constructor(address _usdcAddress), sent by deployer
Init_OwnerNotSender ==
    \E deployer \in Deployers, _usdcAddress \in TokenRefs :
        /\ i_owner \in Identities \ {deployer}
        /\ usdcToken = _usdcAddress
        /\ addressToAmountFunded = [d \in Identities |-> 0]
        /\ s_funders = <<>>
        /\ balances = [h \in Holders |-> 0]
        /\ allowances = [d \in Identities |-> 0]
        /\ lastCall = Call("constructor", deployer, 0, "none", <<_usdcAddress>>, <<>>)
        /\ sinceWithdraw = [d \in Identities |-> 0]
        /\ outOfBand = 0
        /\ everFunded = {}
        /\ tip = NoPage

Init ==
    \E deployer \in Deployers, _usdcAddress \in TokenRefs :
        /\ i_owner = deployer
        /\ usdcToken = _usdcAddress
        /\ addressToAmountFunded = [d \in Identities |-> 0]
        /\ s_funders = <<>>
        /\ balances = [h \in Holders |-> 0]
        /\ allowances = [d \in Identities |-> 0]
        /\ lastCall = Call("constructor", deployer, 0, "none", <<_usdcAddress>>, <<>>)
        /\ sinceWithdraw = [d \in Identities |-> 0]
        /\ outOfBand = 0
        /\ everFunded = {}
        /\ tip = NoPage

\* revert: the transaction's effects on every contract are discarded.
Revert_KeepsSweep(op, sender, amount, error, args, calls) ==
    /\ lastCall' = Call(op, sender, amount, error, args, calls)
    /\ IF op = "withdraw" /\ calls # <<>>
       THEN /\ addressToAmountFunded' =
                   [d \in Identities |->
                       IF InRoster(s_funders, d) THEN 0 ELSE addressToAmountFunded[d]]
            /\ s_funders' = <<>>
       ELSE UNCHANGED <<addressToAmountFunded, s_funders>>
    /\ UNCHANGED <<i_owner, usdcToken, balances, allowances, sinceWithdraw,
                   outOfBand>>

Revert_KeepsRosterReset(op, sender, amount, error, args, calls) ==
    /\ lastCall' = Call(op, sender, amount, error, args, calls)
    /\ s_funders' = IF op = "withdraw" /\ calls # <<>> THEN <<>> ELSE s_funders
    /\ UNCHANGED <<i_owner, usdcToken, addressToAmountFunded, balances,
                   allowances, sinceWithdraw, outOfBand>>

Revert(op, sender, amount, error, args, calls) ==
    /\ lastCall' = Call(op, sender, amount, error, args, calls)
    /\ UNCHANGED <<i_owner, usdcToken, addressToAmountFunded, s_funders,
                   balances, allowances, sinceWithdraw, outOfBand>>

\* if (addressToAmountFunded[msg.sender] == 0) s_funders.push(msg.sender);
FundRoster_Prepend(funded, funders, sender) ==
    IF funded[sender] = 0 THEN <<sender>> \o funders ELSE funders

FundRoster_Never(funded, funders, sender) == funders

FundRoster_Always(funded, funders, sender) == Append(funders, sender)

FundRoster(funded, funders, sender) ==
    IF funded[sender] = 0 THEN Append(funders, sender) ELSE funders

\* addressToAmountFunded[msg.sender] += _amount;
FundAmount_Assign(funded, sender, _amount) ==
    [funded EXCEPT ![sender] = _amount]

FundAmount(funded, sender, _amount) ==
    [funded EXCEPT ![sender] = @ + _amount]

\* if (_amount < MINIMUM_USDC) revert FundMe__NotEnoughFunds();
BelowMinimum_OffByOne(_amount) == _amount < MINIMUM_USDC - 1

BelowMinimum_Le(_amount) == _amount <= MINIMUM_USDC

BelowMinimum_Never(_amount) == FALSE

BelowMinimum(_amount) == _amount < MINIMUM_USDC

\* if (!success) revert FundMe__TransferFailed();   (in fund)
PullFailed_Never(success) == FALSE

PullFailed(success) == ~success

\* function fund(uint256 _amount) public
fund(sender, _amount, resp) ==
    IF BelowMinimum(_amount)
    THEN Revert("fund", sender, _amount, "FundMe__NotEnoughFunds", <<>>, <<>>)
    ELSE LET r == transferFrom(usdcToken, balances, allowances, FundMeAddr,
                               sender, FundMeAddr, _amount, resp)
         IN  IF r.status = "abort"
             THEN Revert("fund", sender, _amount, r.err, r.args, <<"transferFrom">>)
             ELSE IF PullFailed(r.status = "ok")
             THEN Revert("fund", sender, _amount, "FundMe__TransferFailed", <<>>,
                         <<"transferFrom">>)
             ELSE /\ balances' = r.bal
                  /\ allowances' = r.allow
                  /\ s_funders' = FundRoster(addressToAmountFunded, s_funders, sender)
                  /\ addressToAmountFunded' =
                         FundAmount(addressToAmountFunded, sender, _amount)
                  /\ sinceWithdraw' = [sinceWithdraw EXCEPT ![sender] = @ + _amount]
                  /\ lastCall' = Call("fund", sender, _amount, "none", <<>>,
                                      <<"transferFrom">>)
                  /\ UNCHANGED <<i_owner, usdcToken, outOfBand>>

\* for (funderIndex = 0; funderIndex < s_funders.length; funderIndex++)
\*     addressToAmountFunded[s_funders[funderIndex]] = 0;
ResetFunding_SkipFirst(funded, funders, funderIndex) ==
    [d \in DOMAIN funded |->
        IF \E k \in (funderIndex + 2)..Len(funders) : funders[k] = d
        THEN 0 ELSE funded[d]]

ResetFunding_Noop(funded, funders, funderIndex) == funded

RECURSIVE ResetFunding(_, _, _)
ResetFunding(funded, funders, funderIndex) ==
    IF funderIndex < Len(funders)
    THEN ResetFunding([funded EXCEPT ![funders[funderIndex + 1]] = 0],
                      funders, funderIndex + 1)
    ELSE funded

\* if (msg.sender != i_owner) revert FundMe__NotOwner();
NotOwner_Never(sender, owner) == FALSE

NotOwner_Inverted(sender, owner) == sender = owner

NotOwner(sender, owner) == sender # owner

\* uint256 balance = usdcToken.balanceOf(address(this));
WithdrawBalance_Tracked(bal) == SumOver(addressToAmountFunded, Identities)

WithdrawBalance(bal) == balanceOf(bal, FundMeAddr)

\* if (!success) revert FundMe__TransferFailed();   (in withdraw)
PushFailed(success) == ~success

\* function withdraw() public
withdraw(sender, resp) ==
    IF NotOwner(sender, i_owner)
    THEN Revert("withdraw", sender, 0, "FundMe__NotOwner", <<>>, <<>>)
    ELSE LET reset == ResetFunding(addressToAmountFunded, s_funders, 0)
             balance == WithdrawBalance(balances)
             r == transfer(usdcToken, balances, allowances, FundMeAddr,
                           i_owner, balance, resp)
         IN  IF r.status = "abort"
             THEN Revert("withdraw", sender, 0, r.err, r.args,
                         <<"balanceOf", "transfer">>)
             ELSE IF PushFailed(r.status = "ok")
             THEN Revert("withdraw", sender, 0, "FundMe__TransferFailed", <<>>,
                         <<"balanceOf", "transfer">>)
             ELSE /\ addressToAmountFunded' = reset
                  /\ s_funders' = <<>>
                  /\ balances' = r.bal
                  /\ allowances' = r.allow
                  /\ sinceWithdraw' = [d \in Identities |-> 0]
                  /\ outOfBand' = 0
                  /\ lastCall' = Call("withdraw", sender, balance, "none", s_funders,
                                      <<"balanceOf", "transfer">>)
                  /\ UNCHANGED <<i_owner, usdcToken>>

(***************************************************************************)
(* Transactions                                                            *)
(***************************************************************************)

Fund ==
    \E sender \in Identities, _amount \in FundAmounts, resp \in Responses(usdcToken) :
        fund(sender, _amount, resp)

Withdraw ==
    \E sender \in Identities, resp \in Responses(usdcToken) :
        withdraw(sender, resp)

\* mockUsdc.mint(to, value): tokens come into an account's hands.
Mint ==
    \E to \in Identities, value \in MoveAmounts :
        /\ TotalSupply + value <= MaxSupply * MINIMUM_USDC
        /\ balances' = [balances EXCEPT ![to] = @ + value]
        /\ lastCall' = TokenCall
        /\ UNCHANGED <<i_owner, usdcToken, addressToAmountFunded, s_funders,
                       allowances, sinceWithdraw, outOfBand>>

\* mockUsdc.approve(address(fundMe), value), sent by holder
Approve ==
    \E holder \in Identities, value \in ApproveAmounts :
        /\ allowances' = [allowances EXCEPT ![holder] = value]
        /\ lastCall' = TokenCall
        /\ UNCHANGED <<i_owner, usdcToken, addressToAmountFunded, s_funders,
                       balances, sinceWithdraw, outOfBand>>

\* A holder sends tokens straight to the ledger with the token's transfer().
DirectTransfer ==
    \E from \in Identities, value \in MoveAmounts :
        LET r == transfer(usdcToken, balances, allowances, from, FundMeAddr,
                          value, "ok")
        IN  /\ r.status = "ok"
            /\ balances' = r.bal
            /\ outOfBand' = outOfBand + value
            /\ lastCall' = TokenCall
            /\ UNCHANGED <<i_owner, usdcToken, addressToAmountFunded, s_funders,
                           allowances, sinceWithdraw>>

\* The ledger's transactions on their own: the page is not used.
FundTx == Fund /\ UNCHANGED <<everFunded, tip>>

WithdrawTx == Withdraw /\ UNCHANGED <<everFunded, tip>>

MintTx == Mint /\ UNCHANGED <<everFunded, tip>>

ApproveTx == Approve /\ UNCHANGED <<everFunded, tip>>

DirectTransferTx == DirectTransfer /\ UNCHANGED <<everFunded, tip>>

Next == FundTx \/ WithdrawTx \/ MintTx \/ ApproveTx \/ DirectTransferTx

Spec == Init /\ [][Next]_vars

(***************************************************************************)
(* The ledger with the set of all-time depositors recorded, as deployed by *)
(* the tests (FundMeTest.setUp: a fresh MockUSDC).                         *)
(***************************************************************************)

\* A successful fund adds its sender to the all-time depositors.
Recorded ==
    everFunded' = IF lastCall'.op = "fund" /\ lastCall'.error = "none"
                  THEN everFunded \cup {lastCall'.caller}
                  ELSE everFunded

FundSeen == Fund /\ Recorded /\ UNCHANGED tip

WithdrawSeen == Withdraw /\ Recorded /\ UNCHANGED tip

MintSeen == Mint /\ Recorded /\ UNCHANGED tip

ApproveSeen == Approve /\ Recorded /\ UNCHANGED tip

DirectTransferSeen == DirectTransfer /\ Recorded /\ UNCHANGED tip

InitHistory == Init /\ usdcToken = "MockUSDC"

NextHistory ==
    FundSeen \/ WithdrawSeen \/ MintSeen \/ ApproveSeen \/ DirectTransferSeen

SpecHistory == InitHistory /\ [][NextHistory]_vars

(***************************************************************************)
(* TipButton (src/TipButton.tsx): the page's button, the wallet of one     *)
(* connected account and the chain it sends its transactions to.  Each     *)
(* step is one run of handleTrigger between two awaits, one callback, or   *)
(* one click; a React state update takes effect with the step that makes   *)
(* it.                                                                     *)
(***************************************************************************)

\* Bound: callbacks (renderFrame, the 1500 ms landing timer, the 300 ms reset
\* timer) pending at once.  Only a click adds one: a landing frame leaves a
\* landing timer, and that timer leaves a reset timer.
MaxPending == 2

\* state.current.maxLoops
maxLoops == 97

\* const FUND_ME_ADDRESS: where the FundMe contract is deployed.
FUND_ME_ADDRESS == FundMeAddr

\* const USDC_ADDRESS: the MockUSDC of the local chain.
USDC_ADDRESS == "MockUSDC"

\* The account connected in the wallet: requestAddresses()[0].
Tipper == "a2"

\* anvil.id and another chain the wallet may be on.
anvil == [id |-> 31337]

ChainIds == {anvil.id, 1}

\* viem's parseUnits(value, decimals) for a whole number of units.
parseUnits(value, decimals) == value * 10 ^ decimals

\* error.message of a rejected await, by the fragment it contains.
ErrorMessages == {"User rejected the request", "other"}

\* status of a mined transaction's receipt; handleTrigger does not read it.
ReceiptStatus == {"success", "reverted"}

getFriendlyErrorMessage(message) ==
    CASE message = "HTTP request failed" -> "Cannot connect to blockchain RPC node."
      [] message = "returned no data" ->
             "The funding contract has not been deployed on this blockchain."
      [] message = "User rejected the request" -> "User rejected the request."
      [] OTHER -> "An unexpected error occurred."

\* TipButton as first rendered: useState and useRef initial values, nothing
\* scheduled, no flow started.  pc is the await handleTrigger is suspended
\* at; frames, landTimers and resetTimers count the pending callbacks; txs
\* (what the current flow sent and the receipts it got) and flow (how the
\* current flow stands) are history.
TipMounted ==
    [state |-> [isAnimating |-> FALSE, isHovering |-> FALSE,
                isDescending |-> FALSE, currentLoop |-> 0],
     isProcessing |-> FALSE,
     isSuccess |-> FALSE,
     errorMessage |-> "null",
     classList |-> {},
     pc |-> "idle",
     frames |-> 0,
     landTimers |-> 0,
     resetTimers |-> 0,
     txs |-> <<>>,
     flow |-> "none"]

\* A transaction of the flow handed to the wallet, and its receipt.
Sent(functionName, args) ==
    [ev |-> "sent", functionName |-> functionName, args |-> args, status |-> "none"]

Receipt(functionName, args, status) ==
    [ev |-> "receipt", functionName |-> functionName, args |-> args, status |-> status]

\* The local chain as the e2e setup leaves it: FundMe bound to MockUSDC, the
\* connected account holding some minted tokens, the page just loaded.
InitTip ==
    \E deployer \in Deployers, funds \in 0..MaxSupply :
        /\ i_owner = deployer
        /\ usdcToken = USDC_ADDRESS
        /\ addressToAmountFunded = [d \in Identities |-> 0]
        /\ s_funders = <<>>
        /\ balances = [h \in Holders |->
                          IF h = Tipper THEN funds * MINIMUM_USDC ELSE 0]
        /\ allowances = [d \in Identities |-> 0]
        /\ lastCall = TokenCall
        /\ sinceWithdraw = [d \in Identities |-> 0]
        /\ outOfBand = 0
        /\ everFunded = {}
        /\ tip = TipMounted

\* Callbacks scheduled and not yet run.
Pending(t) == t.frames + t.landTimers + t.resetTimers

\* const resetCoin
resetCoin(t) ==
    [t EXCEPT !.state = [@ EXCEPT !.isHovering = FALSE, !.isDescending = FALSE,
                                  !.isAnimating = FALSE],
              !.isSuccess = FALSE,
              !.classList = @ \ {"is-hovering", "clicked", "coin-landed"}]

\* renderFrame: the hover transition at mid-arc
Hover_Never(s) == FALSE

Hover(s) == ~s.isDescending /\ 2 * s.currentLoop >= maxLoops /\ ~s.isHovering

\* renderFrame: whether another frame is requested
KeepsFlying(s) == s.isHovering \/ s.currentLoop < maxLoops

\* const renderFrame, run as a due callback
renderFrame ==
    /\ tip.frames > 0
    /\ LET s == tip.state
           h == IF Hover(s) THEN [s EXCEPT !.isHovering = TRUE] ELSE s
           n == IF h.isHovering THEN h ELSE [h EXCEPT !.currentLoop = @ + 1]
           cl == IF Hover(s) THEN tip.classList \cup {"is-hovering"}
                 ELSE tip.classList
       IN  IF ~s.isAnimating
           THEN tip' = [tip EXCEPT !.frames = @ - 1]
           ELSE IF KeepsFlying(n)
           THEN tip' = [tip EXCEPT !.state = n, !.classList = cl]
           ELSE tip' = [tip EXCEPT !.state = n,
                                   !.classList = cl \cup {"coin-landed"},
                                   !.frames = @ - 1,
                                   !.landTimers = @ + 1]
    /\ UNCHANGED <<ledgerVars, everFunded>>

\* renderFrame's setTimeout(..., 1500) callback
LandingTimeout ==
    /\ tip.landTimers > 0
    /\ tip' = [tip EXCEPT !.classList = @ \ {"clicked", "coin-landed"},
                          !.landTimers = @ - 1,
                          !.resetTimers = @ + 1]
    /\ UNCHANGED <<ledgerVars, everFunded>>

\* setTimeout(resetCoin, 300) callback
ResetTimeout ==
    /\ tip.resetTimers > 0
    /\ tip' = [resetCoin(tip) EXCEPT !.resetTimers = @ - 1]
    /\ UNCHANGED <<ledgerVars, everFunded>>

\* handleTrigger up to its first await.  The button takes no click while it
\* is disabled={isProcessing || isSuccess}.
handleTrigger(ethereum) ==
    /\ ~(tip.isProcessing \/ tip.isSuccess)
    /\ IF tip.state.isAnimating \/ tip.isProcessing \/ ~ethereum
       THEN UNCHANGED tip
       ELSE /\ Pending(tip) < MaxPending
            /\ tip' = [tip EXCEPT !.state = [@ EXCEPT !.isAnimating = TRUE,
                                                     !.currentLoop = 0,
                                                     !.isDescending = FALSE,
                                                     !.isHovering = FALSE],
                                  !.classList = @ \cup {"clicked"},
                                  !.frames = @ + 1,
                                  !.isProcessing = TRUE,
                                  !.pc = "getChainId",
                                  !.txs = <<>>,
                                  !.flow = "running"]
    /\ UNCHANGED <<ledgerVars, everFunded>>

Click == \E ethereum \in BOOLEAN : handleTrigger(ethereum)

\* handleTrigger resumes from the await it is suspended at and runs to the next.
Resume(at, to) ==
    /\ tip.pc = at
    /\ tip' = [tip EXCEPT !.pc = to]
    /\ UNCHANGED <<ledgerVars, everFunded>>

\* await walletClient.getChainId()
GetChainId ==
    \E currentChainId \in ChainIds :
        Resume("getChainId",
               IF currentChainId # anvil.id THEN "switchChain" ELSE "requestAddresses")

\* await walletClient.switchChain({ id: anvil.id })
SwitchChain == Resume("switchChain", "requestAddresses")

\* const [address] = await walletClient.requestAddresses()
RequestAddresses == Resume("requestAddresses", "simulateApprove")

\* const amount = parseUnits("1", 6)
amount == parseUnits(1, 6)

\* await publicClient.simulateContract({ functionName: "approve", ... }):
\* MockUSDC.approve to a non-zero spender does not revert.
SimulateApprove == Resume("simulateApprove", "writeApprove")

\* await walletClient.writeContract(approveReq)
WriteApprove ==
    /\ tip.pc = "writeApprove"
    /\ tip' = [tip EXCEPT !.pc = "waitApprove",
                          !.txs = Append(@, Sent("approve", <<FUND_ME_ADDRESS, amount>>))]
    /\ UNCHANGED <<ledgerVars, everFunded>>

\* await publicClient.waitForTransactionReceipt({ hash: approveHash }): the
\* approve is mined, successfully or reverted (out of gas), and the receipt
\* is dropped unread.
WaitApprove ==
    /\ tip.pc = "waitApprove"
    /\ \E status \in ReceiptStatus :
        /\ allowances' = IF status = "success"
                         THEN [allowances EXCEPT ![Tipper] = amount]
                         ELSE allowances
        /\ tip' = [tip EXCEPT !.pc = "simulateFund",
                              !.txs = Append(@, Receipt("approve",
                                                        <<FUND_ME_ADDRESS, amount>>,
                                                        status))]
    /\ lastCall' = TokenCall
    /\ UNCHANGED <<i_owner, usdcToken, addressToAmountFunded, s_funders, balances,
                   sinceWithdraw, outOfBand, everFunded>>

\* fund(_amount) sent by sender would not revert on the chain as it is.
FundPasses(sender, _amount) ==
    /\ ~BelowMinimum(_amount)
    /\ transferFrom(usdcToken, balances, allowances, FUND_ME_ADDRESS, sender,
                    FUND_ME_ADDRESS, _amount, "ok").status = "ok"

\* await publicClient.simulateContract({ functionName: "fund", ... })
\* resolves when the call passes; when it reverts the await rejects.
SimulateFund ==
    /\ FundPasses(Tipper, amount)
    /\ Resume("simulateFund", "writeFund")

\* await walletClient.writeContract(fundReq)
WriteFund ==
    /\ tip.pc = "writeFund"
    /\ tip' = [tip EXCEPT !.pc = "waitFund",
                          !.txs = Append(@, Sent("fund", <<amount>>))]
    /\ UNCHANGED <<ledgerVars, everFunded>>

\* On Success: the statements after the last await, then finally.
OnSuccess(t) ==
    [t EXCEPT !.errorMessage = "null",
              !.isSuccess = TRUE,
              !.state = [@ EXCEPT !.isHovering = FALSE, !.isDescending = TRUE],
              !.classList = @ \ {"is-hovering"},
              !.isProcessing = FALSE,
              !.pc = "idle",
              !.flow = "succeeded"]

\* await publicClient.waitForTransactionReceipt({ hash: fundHash }): the
\* fund is mined, runs FundMe.fund or runs out of gas, and handleTrigger goes
\* on to its success statements without reading the receipt.
WaitFund ==
    /\ tip.pc = "waitFund"
    /\ \E gas \in {"enough", "out"} :
        IF gas = "out"
        THEN Revert("fund", Tipper, amount, "OutOfGas", <<>>, <<>>)
        ELSE fund(Tipper, amount, "ok")
    /\ Recorded
    /\ tip' = OnSuccess([tip EXCEPT !.txs =
                  Append(@, Receipt("fund", <<amount>>,
                                    IF lastCall'.error = "none" THEN "success"
                                    ELSE "reverted"))])

\* catch (error) and finally: the await handleTrigger is suspended at rejects.
Catch(message) ==
    /\ tip.pc # "idle"
    /\ tip' = [resetCoin([tip EXCEPT !.errorMessage =
                                         getFriendlyErrorMessage(message)])
                  EXCEPT !.isProcessing = FALSE, !.pc = "idle", !.flow = "failed"]
    /\ UNCHANGED <<ledgerVars, everFunded>>

Reject == \E message \in ErrorMessages : Catch(message)

\* onClick={() => setErrorMessage(null)} of the error card
CloseError ==
    /\ tip.errorMessage # "null"
    /\ tip' = [tip EXCEPT !.errorMessage = "null"]
    /\ UNCHANGED <<ledgerVars, everFunded>>

NextTip ==
    \/ Click
    \/ GetChainId
    \/ SwitchChain
    \/ RequestAddresses
    \/ SimulateApprove
    \/ WriteApprove
    \/ WaitApprove
    \/ SimulateFund
    \/ WriteFund
    \/ WaitFund
    \/ Reject
    \/ renderFrame
    \/ LandingTimeout
    \/ ResetTimeout
    \/ CloseError

SpecTip == InitTip /\ [][NextTip]_vars

TypeOK ==
    /\ i_owner \in Identities
    /\ usdcToken \in TokenRefs
    /\ addressToAmountFunded \in [Identities -> Nat]
    /\ s_funders \in Seq(Identities)
    /\ balances \in [Holders -> Nat]
    /\ allowances \in [Identities -> Nat]
    /\ outOfBand \in Nat

\* Sum of all contribution entries.
TrackedTotal == SumOver(addressToAmountFunded, Identities)

(***************************************************************************)
(* Properties                                                              *)
(***************************************************************************)

\* C1: fund(a) with a < MINIMUM_USDC aborts with FundMe__NotEnoughFunds,
\* calls no token function and leaves contributions, roster and every token
\* balance as they were; so no successful fund has an amount below the minimum.
C1_ThresholdEnforcement ==
    [][ /\ (lastCall'.op = "fund" /\ lastCall'.amount < MINIMUM_USDC) =>
            /\ lastCall'.error = "FundMe__NotEnoughFunds"
            /\ lastCall'.calls = <<>>
            /\ UNCHANGED <<addressToAmountFunded, s_funders, balances>>
        /\ (lastCall'.op = "fund" /\ lastCall'.error = "none") =>
            lastCall'.amount >= MINIMUM_USDC ]_vars

C1_Witness ==
    /\ lastCall.op = "fund"
    /\ lastCall.amount = MINIMUM_USDC - 1
    /\ lastCall.error = "FundMe__NotEnoughFunds"
    /\ allowances[lastCall.caller] >= MINIMUM_USDC
    /\ balances[lastCall.caller] >= MINIMUM_USDC
    /\ s_funders # <<>>

\* C2: withdraw() sent by anyone but the owner aborts with FundMe__NotOwner
\* and leaves contributions, roster and every token balance as they were.
C2_OwnerGate ==
    [][ (lastCall'.op = "withdraw" /\ lastCall'.caller # i_owner) =>
            /\ lastCall'.error = "FundMe__NotOwner"
            /\ UNCHANGED <<addressToAmountFunded, s_funders, balances>> ]_vars

C2_Witness ==
    /\ lastCall.op = "withdraw"
    /\ lastCall.caller # i_owner
    /\ lastCall.error = "FundMe__NotOwner"
    /\ balances[FundMeAddr] > 0
    /\ addressToAmountFunded[lastCall.caller] > 0

\* C3: after a successful withdraw() every identity's contribution is zero
\* and the roster is empty.
C3_SweepResets ==
    (lastCall.op = "withdraw" /\ lastCall.error = "none") =>
        /\ \A d \in Identities : addressToAmountFunded[d] = 0
        /\ Len(s_funders) = 0

C3_Witness ==
    /\ lastCall.op = "withdraw"
    /\ lastCall.error = "none"
    /\ Len(lastCall.args) = 2
    /\ lastCall.amount = 3 * MINIMUM_USDC
    /\ \A d \in Identities : addressToAmountFunded[d] = 0

\* C4: a successful withdraw() moves the ledger's whole token balance to the
\* owner, tokens that arrived outside fund() included; with no such tokens
\* the owner gains exactly the sum of the tracked contributions.
C4_SweepsWholeBalance ==
    [][ (lastCall'.op = "withdraw" /\ lastCall'.error = "none") =>
            /\ balances'[FundMeAddr] = 0
            /\ balances'[i_owner] = balances[i_owner] + balances[FundMeAddr]
            /\ outOfBand = 0 =>
                   balances'[i_owner] - balances[i_owner] = TrackedTotal ]_vars

C4_Witness ==
    /\ lastCall.op = "withdraw"
    /\ lastCall.error = "none"
    /\ lastCall.amount = 2 * MINIMUM_USDC
    /\ Len(lastCall.args) = 0
    /\ balances[FundMeAddr] = 0
    /\ balances[i_owner] >= 2 * MINIMUM_USDC

\* The caller of the transaction being taken lacks allowance or balance for
\* its amount.
CannotPay ==
    \/ allowances[lastCall'.caller] < lastCall'.amount
    \/ balances[lastCall'.caller] < lastCall'.amount

\* C5 as stated: fund(a), a >= MINIMUM_USDC, by a caller lacking allowance
\* or balance aborts with FundMe__TransferFailed, roster and contributions
\* unchanged.
C5_Original ==
    [][ (lastCall'.op = "fund" /\ lastCall'.amount >= MINIMUM_USDC /\ CannotPay) =>
            /\ lastCall'.error = "FundMe__TransferFailed"
            /\ UNCHANGED <<addressToAmountFunded, s_funders>> ]_vars

\* C5 amended: such a fund(a) aborts and changes neither roster nor
\* contributions; the error is FundMe__TransferFailed only when the token
\* returns false, and the token's own error when the token aborts, as
\* MockUSDC always does.
C5_AllowanceBalanceGate ==
    [][ (lastCall'.op = "fund" /\ lastCall'.amount >= MINIMUM_USDC /\ CannotPay) =>
            /\ lastCall'.error \in
                   IF usdcToken = "MockUSDC"
                   THEN {"ERC20InsufficientAllowance", "ERC20InsufficientBalance"}
                   ELSE {"FundMe__TransferFailed", "TokenAbort"}
            /\ lastCall'.calls = <<"transferFrom">>
            /\ UNCHANGED <<addressToAmountFunded, s_funders>> ]_vars

C5_Witness ==
    /\ lastCall.op = "fund"
    /\ lastCall.amount = MINIMUM_USDC
    /\ lastCall.error = "FundMe__TransferFailed"
    /\ allowances[lastCall.caller] >= MINIMUM_USDC
    /\ balances[lastCall.caller] < MINIMUM_USDC
    /\ s_funders # <<>>

\* C6: with MockUSDC, fund(a), a >= MINIMUM_USDC, by a caller who granted
\* the ledger no allowance aborts with the token's
\* ERC20InsufficientAllowance(ledger, 0, a), not with a FundMe error, and
\* changes no state.
C6_TokenErrorPropagates ==
    [][ (/\ usdcToken = "MockUSDC"
         /\ lastCall'.op = "fund"
         /\ lastCall'.amount >= MINIMUM_USDC
         /\ allowances[lastCall'.caller] = 0) =>
            /\ lastCall'.error = "ERC20InsufficientAllowance"
            /\ lastCall'.args = <<FundMeAddr, 0, lastCall'.amount>>
            /\ UNCHANGED <<addressToAmountFunded, s_funders, balances,
                           allowances>> ]_vars

C6_Witness ==
    /\ usdcToken = "MockUSDC"
    /\ lastCall.op = "fund"
    /\ lastCall.amount = 2 * MINIMUM_USDC
    /\ lastCall.error = "ERC20InsufficientAllowance"
    /\ lastCall.args = <<FundMeAddr, 0, 2 * MINIMUM_USDC>>
    /\ balances[lastCall.caller] >= 2 * MINIMUM_USDC

\* C7: every identity's contribution is the sum of its successful deposits
\* since the last successful withdraw, and an identity with such deposits is
\* in the roster exactly once.
C7_Accumulation ==
    \A d \in Identities :
        /\ addressToAmountFunded[d] = sinceWithdraw[d]
        /\ sinceWithdraw[d] > 0 => Occurrences(s_funders, d) = 1

C7_Witness ==
    \E d, e \in Identities :
        /\ d # e
        /\ s_funders = <<d, e>>
        /\ lastCall = Call("fund", d, MINIMUM_USDC, "none", <<>>, <<"transferFrom">>)
        /\ addressToAmountFunded[d] = 2 * MINIMUM_USDC
        /\ addressToAmountFunded[e] = MINIMUM_USDC

\* C8: a successful fund(a) by a caller whose contribution is zero appends
\* the caller at the end of the roster, where it then occurs once, and sets
\* its contribution to a.
C8_FirstDeposit ==
    [][ (/\ lastCall'.op = "fund"
         /\ lastCall'.error = "none"
         /\ addressToAmountFunded[lastCall'.caller] = 0) =>
            /\ s_funders' = Append(s_funders, lastCall'.caller)
            /\ Occurrences(s_funders', lastCall'.caller) = 1
            /\ addressToAmountFunded'[lastCall'.caller] = lastCall'.amount ]_vars

C8_Witness ==
    /\ lastCall.op = "fund"
    /\ lastCall.error = "none"
    /\ addressToAmountFunded[lastCall.caller] = lastCall.amount
    /\ Len(s_funders) = 2
    /\ s_funders[2] = lastCall.caller
    /\ balances[i_owner] > 0

\* C9: the sum of all contributions never exceeds the ledger's token balance.
C9_TrackedWithinBalance == TrackedTotal <= balances[FundMeAddr]

C9_Witness ==
    /\ TrackedTotal = 2 * MINIMUM_USDC
    /\ balances[FundMeAddr] = 3 * MINIMUM_USDC
    /\ lastCall.op = "fund"
    /\ lastCall.error # "none"

\* C10: an identity with a positive contribution is in the roster.
C10_PositiveImpliesListed ==
    \A d \in Identities :
        addressToAmountFunded[d] > 0 => InRoster(s_funders, d)

C10_Witness ==
    \E d, e \in Identities :
        /\ addressToAmountFunded[d] > 0
        /\ InRoster(s_funders, d)
        /\ addressToAmountFunded[e] = 0
        /\ ~InRoster(s_funders, e)
        /\ balances[e] > 0

\* The transaction being taken is a fund or withdraw that aborted after
\* calling the token service: the token service refused.
TokenCallFailed ==
    /\ lastCall'.op \in {"fund", "withdraw"}
    /\ lastCall'.calls # <<>>
    /\ lastCall'.error # "none"

\* C12 as stated: a withdraw() whose final push fails aborts with
\* FundMe__TransferFailed and leaves every contribution zero and the roster
\* empty while the ledger still holds tokens.
C12_Original ==
    [][ (lastCall'.op = "withdraw" /\ TokenCallFailed /\ TrackedTotal > 0) =>
            /\ lastCall'.error = "FundMe__TransferFailed"
            /\ \A d \in Identities : addressToAmountFunded'[d] = 0
            /\ s_funders' = <<>>
            /\ balances'[FundMeAddr] > 0 ]_vars

\* C12 amended: a withdraw() whose final push fails aborts, with
\* FundMe__TransferFailed when the token returned false and with the token's
\* error when the token aborted, and the revert leaves contributions, roster
\* and balances exactly as before the call; the ledger keeps its tokens and
\* its bookkeeping.
C12_FailedPushRollsBack ==
    [][ (lastCall'.op = "withdraw" /\ TokenCallFailed) =>
            /\ lastCall'.caller = i_owner
            /\ lastCall'.calls = <<"balanceOf", "transfer">>
            /\ lastCall'.error \in {"FundMe__TransferFailed", "TokenAbort"}
            /\ UNCHANGED <<addressToAmountFunded, s_funders, balances>> ]_vars

C12_Witness ==
    /\ lastCall.op = "withdraw"
    /\ lastCall.error = "FundMe__TransferFailed"
    /\ lastCall.calls = <<"balanceOf", "transfer">>
    /\ Len(s_funders) = 2
    /\ TrackedTotal = 3 * MINIMUM_USDC
    /\ balances[FundMeAddr] = 3 * MINIMUM_USDC

\* C13: a fund or withdraw that fails because a token-service call fails
\* leaves the contribution mapping and the roster as they were before it.
C13_NoPartialCommit ==
    [][ TokenCallFailed =>
            UNCHANGED <<addressToAmountFunded, s_funders>> ]_vars

C13_Witness ==
    /\ lastCall.op = "withdraw"
    /\ lastCall.error = "TokenAbort"
    /\ lastCall.calls = <<"balanceOf", "transfer">>
    /\ s_funders # <<>>
    /\ TrackedTotal > 0
    /\ outOfBand > 0

\* C14: the owner is the constructing caller and the token the constructor
\* argument, and no transaction changes either.
C14_ImmutableConfig ==
    /\ lastCall.op = "constructor" =>
           (i_owner = lastCall.caller /\ usdcToken = lastCall.args[1])
    /\ [][ i_owner' = i_owner /\ usdcToken' = usdcToken ]_vars

C14_Witness ==
    /\ lastCall.op = "withdraw"
    /\ lastCall.error = "none"
    /\ lastCall.amount > 0
    /\ lastCall.caller = i_owner
    /\ i_owner \in Deployers
    /\ usdcToken = "USDC"

C17_ZeroIffAbsent ==
    \A d \in Identities :
        (addressToAmountFunded[d] = 0) <=> ~InRoster(s_funders, d)

C17_Witness ==
    \E d, e \in Identities :
        /\ lastCall.op = "fund"
        /\ lastCall.amount = 0
        /\ lastCall.caller = e
        /\ allowances[e] > 0
        /\ balances[e] > 0
        /\ ~InRoster(s_funders, e)
        /\ addressToAmountFunded[e] = 0
        /\ InRoster(s_funders, d)
        /\ addressToAmountFunded[d] > 0

\* s is an initial segment of t.
IsPrefix(s, t) == Len(s) <= Len(t) /\ SubSeq(t, 1, Len(s)) = s

\* C18: a fund by c decreases no contribution, changes no entry but c's and
\* keeps the old roster as a prefix of the new one; an entry returns to zero
\* only in a successful withdraw.
C18_OnlyWithdrawDecreases ==
    [][ \/ UNCHANGED <<addressToAmountFunded, s_funders>>
        \/ /\ lastCall'.op = "fund" =>
                   /\ \A d \in Identities :
                          addressToAmountFunded'[d] >= addressToAmountFunded[d]
                   /\ \A d \in Identities \ {lastCall'.caller} :
                          addressToAmountFunded'[d] = addressToAmountFunded[d]
                   /\ IsPrefix(s_funders, s_funders')
           /\ (\E d \in Identities :
                  addressToAmountFunded'[d] < addressToAmountFunded[d]) =>
                   (lastCall'.op = "withdraw" /\ lastCall'.error = "none") ]_vars

C18_Witness ==
    \E d, e \in Identities :
        /\ d # e
        /\ lastCall = Call("fund", e, MINIMUM_USDC, "none", <<>>, <<"transferFrom">>)
        /\ s_funders = <<d, e>>
        /\ addressToAmountFunded[d] = MINIMUM_USDC
        /\ addressToAmountFunded[e] = 2 * MINIMUM_USDC

\* C19: the ledger's token balance decreases only in a successful withdraw()
\* sent by the owner, and what leaves the ledger goes to the owner alone.
C19_OnlyOwnerDrains ==
    [][ balances'[FundMeAddr] < balances[FundMeAddr] =>
            /\ lastCall'.op = "withdraw"
            /\ lastCall'.error = "none"
            /\ lastCall'.caller = i_owner
            /\ balances'[i_owner] =
                   balances[i_owner] + balances[FundMeAddr] - balances'[FundMeAddr]
            /\ \A h \in Identities \ {i_owner} : balances'[h] = balances[h] ]_vars

C19_Witness ==
    /\ lastCall.op = "withdraw"
    /\ lastCall.error = "none"
    /\ lastCall.caller = i_owner
    /\ lastCall.amount = 2 * MINIMUM_USDC
    /\ Len(lastCall.args) = 2
    /\ i_owner \notin {lastCall.args[1], lastCall.args[2]}
    /\ balances[i_owner] = 2 * MINIMUM_USDC

\* C11 as stated: an identity is in the roster at most once, and is in it
\* exactly when it has ever made a successful deposit.
C11_Original ==
    \A d \in Identities :
        /\ Occurrences(s_funders, d) <= 1
        /\ InRoster(s_funders, d) <=> d \in everFunded

\* C11 amended: an identity is in the roster at most once, and is in it
\* exactly when it has made a successful deposit since the last successful
\* withdraw; withdraw discards the roster, so earlier depositors are absent.
C11_RosterSinceWithdraw ==
    \A d \in Identities :
        /\ Occurrences(s_funders, d) <= 1
        /\ InRoster(s_funders, d) <=> sinceWithdraw[d] > 0
        /\ InRoster(s_funders, d) => d \in everFunded

C11_Witness ==
    \E d, e \in Identities :
        /\ d \in everFunded
        /\ ~InRoster(s_funders, d)
        /\ e \in everFunded
        /\ s_funders = <<e>>
        /\ addressToAmountFunded[e] = 2 * MINIMUM_USDC

(***************************************************************************)
(* The tip flow                                                            *)
(***************************************************************************)

IsSent(e, functionName) == e.ev = "sent" /\ e.functionName = functionName

IsReceipt(e, functionName) == e.ev = "receipt" /\ e.functionName = functionName

\* Before position i of txs the approve (spender = ledger, amount = the tip
\* amount) was sent and its receipt obtained.
ApprovedBefore(txs, i) ==
    \E j, k \in 1..Len(txs) :
        /\ j < k
        /\ k < i
        /\ txs[j] = Sent("approve", <<FUND_ME_ADDRESS, amount>>)
        /\ IsReceipt(txs[k], "approve")

\* The flow's approve was mined and reverted.
ApproveFailed(txs) ==
    \E k \in 1..Len(txs) : IsReceipt(txs[k], "approve") /\ txs[k].status = "reverted"

\* C16: in a tip flow the fund transaction is submitted only after the
\* approve transaction (spender = ledger, amount = the tip amount) has been
\* sent and its receipt awaited, and a flow whose approval was rejected or
\* failed submits no fund transaction.
C16_Original ==
    \A i \in 1..Len(tip.txs) :
        IsSent(tip.txs[i], "fund") =>
            /\ ApprovedBefore(tip.txs, i)
            /\ ~ApproveFailed(tip.txs)

\* The part of C16 the flow keeps: fund is submitted only after the approve
\* was sent and its receipt obtained, whatever the receipt says.
C16_ApproveAwaitedFirst ==
    \A i \in 1..Len(tip.txs) :
        IsSent(tip.txs[i], "fund") => ApprovedBefore(tip.txs, i)

\* A flow whose approve reverted has submitted fund and moved the tip.
C16_Witness ==
    /\ ApproveFailed(tip.txs)
    /\ \E i \in 1..Len(tip.txs) : IsSent(tip.txs[i], "fund")
    /\ tip.flow = "succeeded"
    /\ lastCall = Call("fund", Tipper, amount, "none", <<>>, <<"transferFrom">>)

\* The first frame index at or past s.maxLoops / 2, where the coin hovers.
MidArc == (maxLoops + 1) \div 2

FundReceiptObtained(txs) == \E i \in 1..Len(txs) : IsReceipt(txs[i], "fund")

\* C20: the coin is in the coin-landed state only when the current flow has
\* obtained its fund receipt; while the flow is still running the animation
\* stays at or below mid-arc and the coin has not landed; after a failed
\* flow the coin is reset and has not landed.
C20_LandsOnlyAfterReceipt ==
    /\ "coin-landed" \in tip.classList =>
           /\ tip.flow = "succeeded"
           /\ FundReceiptObtained(tip.txs)
    /\ tip.flow = "running" =>
           /\ ~FundReceiptObtained(tip.txs)
           /\ ~tip.state.isDescending
           /\ tip.state.currentLoop <= MidArc
           /\ tip.state.isHovering => tip.state.currentLoop = MidArc
           /\ "coin-landed" \notin tip.classList
    /\ tip.flow = "failed" =>
           /\ ~tip.state.isAnimating
           /\ ~tip.state.isHovering
           /\ ~tip.state.isDescending
           /\ ~tip.isSuccess
           /\ tip.classList = {}

\* The coin has landed: the flow hovered at mid-arc until its fund receipt
\* came, then descended through the remaining frames.
C20_Witness ==
    /\ tip.classList = {"clicked", "coin-landed"}
    /\ tip.flow = "succeeded"
    /\ tip.state.currentLoop = maxLoops
    /\ tip.state.isDescending
    /\ tip.landTimers = 1
    /\ tip.txs[Len(tip.txs)] = Receipt("fund", <<amount>>, "success")
    /\ addressToAmountFunded[Tipper] = amount

\* Render loops running: renderFrame callbacks that are pending while the
\* coin is animating, each of which draws a frame and requests the next.
RenderLoops(t) == IF t.state.isAnimating THEN t.frames ELSE 0

\* A click would start a flow: the button is enabled and handleTrigger
\* passes its guard.
Triggerable(t) == ~(t.isProcessing \/ t.isSuccess) /\ ~t.state.isAnimating

\* C21: at most one tip flow and one render loop is active at a time: no
\* flow is suspended at an await when a click can start one, and at most one
\* render loop runs, under every interleaving of clicks, callbacks and
\* transaction completions.
C21_Original ==
    /\ Triggerable(tip) => tip.pc = "idle"
    /\ RenderLoops(tip) <= 1

\* The part of C21 the component keeps: a click starts a flow only when no
\* flow is suspended at an await and the coin is not animating; only such a
\* click schedules a callback, so a click that arrives otherwise starts
\* neither a flow nor a render loop.
C21_OneFlow ==
    /\ Triggerable(tip) => tip.pc = "idle"
    /\ [][ Pending(tip') > Pending(tip) =>
               /\ tip.pc = "idle"
               /\ ~tip.isProcessing
               /\ ~tip.state.isAnimating
               /\ tip'.pc = "getChainId"
               /\ tip'.txs = <<>> ]_vars

\* Two render loops run in one flow: the frame left pending by a failed flow
\* and the one scheduled by the click that followed the reset.
C21_Witness ==
    /\ tip.flow = "running"
    /\ tip.state.isAnimating
    /\ tip.frames = 2
    /\ tip.state.currentLoop > 0

(***************************************************************************)
(* The page with its callbacks and requests served: a due renderFrame and  *)
(* a due timer run, and every await of handleTrigger settles (the wallet   *)
(* and the node answer or reject each request).  Clicks are up to the user.*)
(***************************************************************************)

\* The await handleTrigger is suspended at resolves or rejects.
Settle ==
    \/ GetChainId
    \/ SwitchChain
    \/ RequestAddresses
    \/ SimulateApprove
    \/ WriteApprove
    \/ WaitApprove
    \/ SimulateFund
    \/ WriteFund
    \/ WaitFund
    \/ Reject

SpecTipFair ==
    /\ SpecTip
    /\ WF_vars(renderFrame)
    /\ WF_vars(LandingTimeout)
    /\ WF_vars(ResetTimeout)
    /\ WF_vars(Settle)

\* C22: every started tip flow eventually returns the button to its idle,
\* clickable state (not processing, not animating, not in the success
\* state), given that animation frames and timers keep firing.
C22_Original == (tip.flow = "running") ~> Triggerable(tip)

\* The part of C22 the component keeps: a flow that fails leaves the button
\* idle and clickable in the step that fails it.
C22_FailureResets ==
    [][ (tip.pc # "idle" /\ tip'.flow = "failed" /\ tip'.pc = "idle") =>
            Triggerable(tip') ]_vars

\* The button is stuck: the flow is over and marked successful, the coin is
\* not animating, and no frame or timer is left that could reset it.
C22_Witness ==
    /\ tip.flow = "succeeded"
    /\ tip.isSuccess
    /\ ~tip.isProcessing
    /\ ~tip.state.isAnimating
    /\ tip.state.isDescending
    /\ Pending(tip) = 0
====
